---- MODULE Spec2Model ----
(***************************************************************************)
(* Model of the gekkio-ftdi safe wrapper (src/src/lib.rs): the Context     *)
(* session around one libftdi1 ftdi_context, the per-operation mapping of  *)
(* the driver's integer return codes to FtdiError, ModemStatus decoding    *)
(* and the read_exact loop.                                                *)
(*                                                                         *)
(* The libftdi1 driver is outside the repository.  It is the environment   *)
(* of the model: every driver call answers with a nondeterministically     *)
(* chosen response (return code, error-string pointer, out-parameter).     *)
(***************************************************************************)
EXTENDS Integers, Sequences, FiniteSets, TLC

\* ------------------------------------------------------------------------
\* Bounds of the model
\* ------------------------------------------------------------------------

\* Longest caller buffer handed to write_data / read_data / read_exact.
MaxLen == 3

\* The driver's generic negative codes are -MaxErr..-1 (besides -666 and -5).
MaxErr == 3

\* The driver's non-negative codes of calls that return no count are 0..MaxOk.
MaxOk == 1

\* ------------------------------------------------------------------------
\* Values
\* ------------------------------------------------------------------------

\* Return codes (c_int) a driver call may answer with.
Codes == {-666, -5} \cup ((0 - MaxErr)..MaxOk)

\* ftdi_get_error_string answers with a C string pointer: <<>> is the null
\* pointer, <<s>> points to the string s.
MsgPtrs == {<<>>, <<"device not found">>}

\* Data bytes the driver delivers; 0 marks a cell of the caller's buffer the
\* driver has not written.
Bytes == {1, 2}

RECURSIVE SeqsUpTo(_, _)
\* All sequences over S of length at most n.
SeqsUpTo(S, n) ==
    IF n <= 0 THEN {<<>>}
    ELSE LET shorter == SeqsUpTo(S, n - 1)
         IN  shorter \cup {Append(q, x) : q \in {t \in shorter : Len(t) = n - 1}, x \in S}

\* FtdiError and Result<T, FtdiError>, as records of one shape:
\* val is <<>> for Ok(()) and <<v>> for Ok(v).
Ok(v) == [tag |-> "Ok", code |-> 0, msg |-> "", val |-> v]

UsbDeviceUnavailable ==
    [tag |-> "UsbDeviceUnavailable", code |-> 0, msg |-> "", val |-> <<>>]

Other(c, m) == [tag |-> "Other", code |-> c, msg |-> m, val |-> <<>>]

\* A driver response: the return code, what ftdi_get_error_string answers
\* when the method asks for it (<<>> when it does not ask), and what the call
\* left in the out-parameter or the buffer (<<>> when it has none).
Response(c, p, o) == [code |-> c, msgp |-> p, out |-> o]

\* fn error_msg(ctx): the driver's error string, "" for a null pointer.
error_msg(msgp) == IF msgp = <<>> THEN "" ELSE msgp[1]

\* ------------------------------------------------------------------------
\* ModemStatus (bitflags over u16)
\* ------------------------------------------------------------------------

RCVR_ERR == 32768
TEMT == 16384
THRE == 8192
BI == 4096
FE == 2048
PE == 1024
OE == 512
DR == 256
DCD == 128
RI == 64
DSR == 32
CTS == 16

ModemFlags == {RCVR_ERR, TEMT, THRE, BI, FE, PE, OE, DR, DCD, RI, DSR, CTS}

\* (bits & flag) for a single-bit flag.
BitAnd1(bits, flag) == IF (bits \div flag) % 2 = 1 THEN flag ELSE 0

RECURSIVE SumBits(_, _)
SumBits(bits, flags) ==
    IF flags = {} THEN 0
    ELSE LET f == CHOOSE x \in flags : TRUE
         IN  BitAnd1(bits, f) + SumBits(bits, flags \ {f})

\* Mutant: from_bits_unchecked, which keeps the bits that name no flag.
from_bits_unchecked(bits) == bits % 65536

\* ModemStatus::from_bits_truncate(bits) = bits & ModemStatus::all().bits
from_bits_truncate(bits) == SumBits(bits % 65536, ModemFlags)

\* ModemStatus::contains(flag)
contains(status, flag) == BitAnd1(status, flag) = flag

\* ------------------------------------------------------------------------
\* The methods of Context
\* ------------------------------------------------------------------------
\* self is the driver context the session owns; self.resp is how the driver
\* answers the call the method makes on it.  Each method yields what it
\* returns (res), the driver functions it called, in order (calls), and the
\* arguments it passed to the first of them (args).

Ret(calls, args, res) == [calls |-> calls, args |-> args, res |-> res]

\* `b as _` for a bool handed to a C int parameter.
BoolInt(b) == IF b THEN 1 ELSE 0

\* Context::new: ftdi_init on a zeroed, boxed context.
new(d) ==
    IF d.code < 0
    THEN Ret(<<"ftdi_init", "ftdi_get_error_string">>, <<>>,
             Other(d.code, error_msg(d.msgp)))
    ELSE Ret(<<"ftdi_init">>, <<>>, Ok(<<>>))

\* Context::set_interface: interface as u32; no device-gone arm.
set_interface(self, interface) ==
    LET d == self.resp
    IN  IF d.code < 0
        THEN Ret(<<"ftdi_set_interface", "ftdi_get_error_string">>, <<interface>>,
                 Other(d.code, error_msg(d.msgp)))
        ELSE Ret(<<"ftdi_set_interface">>, <<interface>>, Ok(<<>>))

\* Context::usb_open: vendor as c_int, product as c_int; no device-gone arm.
usb_open(self, vendor, product) ==
    LET d == self.resp
    IN  IF d.code < 0
        THEN Ret(<<"ftdi_usb_open", "ftdi_get_error_string">>, <<vendor, product>>,
                 Other(d.code, error_msg(d.msgp)))
        ELSE Ret(<<"ftdi_usb_open">>, <<vendor, product>>, Ok(<<>>))

\* Context::usb_reset.
usb_reset(self) ==
    LET d == self.resp
    IN  IF d.code = -2
        THEN Ret(<<"ftdi_usb_reset">>, <<>>, UsbDeviceUnavailable)
        ELSE IF d.code < 0
        THEN Ret(<<"ftdi_usb_reset", "ftdi_get_error_string">>, <<>>,
                 Other(d.code, error_msg(d.msgp)))
        ELSE Ret(<<"ftdi_usb_reset">>, <<>>, Ok(<<>>))

\* Context::usb_purge_rx_buffer.
usb_purge_rx_buffer(self) ==
    LET d == self.resp
    IN  IF d.code = -2
        THEN Ret(<<"ftdi_usb_purge_rx_buffer">>, <<>>, UsbDeviceUnavailable)
        ELSE IF d.code < 0
        THEN Ret(<<"ftdi_usb_purge_rx_buffer", "ftdi_get_error_string">>, <<>>,
                 Other(d.code, error_msg(d.msgp)))
        ELSE Ret(<<"ftdi_usb_purge_rx_buffer">>, <<>>, Ok(<<>>))

\* Context::usb_purge_tx_buffer.
usb_purge_tx_buffer(self) ==
    LET d == self.resp
    IN  IF d.code = -2
        THEN Ret(<<"ftdi_usb_purge_tx_buffer">>, <<>>, UsbDeviceUnavailable)
        ELSE IF d.code < 0
        THEN Ret(<<"ftdi_usb_purge_tx_buffer", "ftdi_get_error_string">>, <<>>,
                 Other(d.code, error_msg(d.msgp)))
        ELSE Ret(<<"ftdi_usb_purge_tx_buffer">>, <<>>, Ok(<<>>))

\* Mutant: the sentinel of the per-buffer purges (-2) used for purge_buffers.
usb_purge_buffers_sentinel2(self) ==
    LET d == self.resp
    IN  IF d.code = -2
        THEN Ret(<<"ftdi_usb_purge_buffers">>, <<>>, UsbDeviceUnavailable)
        ELSE IF d.code < 0
        THEN Ret(<<"ftdi_usb_purge_buffers", "ftdi_get_error_string">>, <<>>,
                 Other(d.code, error_msg(d.msgp)))
        ELSE Ret(<<"ftdi_usb_purge_buffers">>, <<>>, Ok(<<>>))

\* Context::usb_purge_buffers.
usb_purge_buffers(self) ==
    LET d == self.resp
    IN  IF d.code = -3
        THEN Ret(<<"ftdi_usb_purge_buffers">>, <<>>, UsbDeviceUnavailable)
        ELSE IF d.code < 0
        THEN Ret(<<"ftdi_usb_purge_buffers", "ftdi_get_error_string">>, <<>>,
                 Other(d.code, error_msg(d.msgp)))
        ELSE Ret(<<"ftdi_usb_purge_buffers">>, <<>>, Ok(<<>>))

\* Context::usb_close: no device-gone arm.
usb_close(self) ==
    LET d == self.resp
    IN  IF d.code < 0
        THEN Ret(<<"ftdi_usb_close", "ftdi_get_error_string">>, <<>>,
                 Other(d.code, error_msg(d.msgp)))
        ELSE Ret(<<"ftdi_usb_close">>, <<>>, Ok(<<>>))

\* Context::read_chip_id: Ok(result), result written through the out-pointer.
read_chip_id(self) ==
    LET d == self.resp
    IN  IF d.code = -2
        THEN Ret(<<"ftdi_read_chipid">>, <<>>, UsbDeviceUnavailable)
        ELSE IF d.code < 0
        THEN Ret(<<"ftdi_read_chipid", "ftdi_get_error_string">>, <<>>,
                 Other(d.code, error_msg(d.msgp)))
        ELSE Ret(<<"ftdi_read_chipid">>, <<>>, Ok(d.out))

\* Context::get_latency_timer.
get_latency_timer(self) ==
    LET d == self.resp
    IN  IF d.code = -2
        THEN Ret(<<"ftdi_get_latency_timer">>, <<>>, UsbDeviceUnavailable)
        ELSE IF d.code < 0
        THEN Ret(<<"ftdi_get_latency_timer", "ftdi_get_error_string">>, <<>>,
                 Other(d.code, error_msg(d.msgp)))
        ELSE Ret(<<"ftdi_get_latency_timer">>, <<>>, Ok(d.out))

\* Mutant: the sentinel of get_latency_timer (-2) used for set_latency_timer.
set_latency_timer_sentinel2(self, millis) ==
    LET d == self.resp
    IN  IF d.code = -2
        THEN Ret(<<"ftdi_set_latency_timer">>, <<millis>>, UsbDeviceUnavailable)
        ELSE IF d.code < 0
        THEN Ret(<<"ftdi_set_latency_timer", "ftdi_get_error_string">>, <<millis>>,
                 Other(d.code, error_msg(d.msgp)))
        ELSE Ret(<<"ftdi_set_latency_timer">>, <<millis>>, Ok(<<>>))

\* Context::set_latency_timer.
set_latency_timer(self, millis) ==
    LET d == self.resp
    IN  IF d.code = -3
        THEN Ret(<<"ftdi_set_latency_timer">>, <<millis>>, UsbDeviceUnavailable)
        ELSE IF d.code < 0
        THEN Ret(<<"ftdi_set_latency_timer", "ftdi_get_error_string">>, <<millis>>,
                 Other(d.code, error_msg(d.msgp)))
        ELSE Ret(<<"ftdi_set_latency_timer">>, <<millis>>, Ok(<<>>))

\* Context::set_bit_mode: bit_mode as u8.
set_bit_mode(self, mask, bit_mode) ==
    LET d == self.resp
    IN  IF d.code = -2
        THEN Ret(<<"ftdi_set_bitmode">>, <<mask, bit_mode % 256>>, UsbDeviceUnavailable)
        ELSE IF d.code < 0
        THEN Ret(<<"ftdi_set_bitmode", "ftdi_get_error_string">>, <<mask, bit_mode % 256>>,
                 Other(d.code, error_msg(d.msgp)))
        ELSE Ret(<<"ftdi_set_bitmode">>, <<mask, bit_mode % 256>>, Ok(<<>>))

\* Context::disable_bit_bang.
disable_bit_bang(self) ==
    LET d == self.resp
    IN  IF d.code = -2
        THEN Ret(<<"ftdi_disable_bitbang">>, <<>>, UsbDeviceUnavailable)
        ELSE IF d.code < 0
        THEN Ret(<<"ftdi_disable_bitbang", "ftdi_get_error_string">>, <<>>,
                 Other(d.code, error_msg(d.msgp)))
        ELSE Ret(<<"ftdi_disable_bitbang">>, <<>>, Ok(<<>>))

\* Mutant: read_pins answers from the context's device handle when no device
\* is open, without asking the driver.
read_pins_needs_open(self) ==
    LET d == self.resp
    IN  IF self.usb_dev # "open"
        THEN Ret(<<>>, <<>>, UsbDeviceUnavailable)
        ELSE IF d.code = -2
        THEN Ret(<<"ftdi_read_pins">>, <<>>, UsbDeviceUnavailable)
        ELSE IF d.code < 0
        THEN Ret(<<"ftdi_read_pins", "ftdi_get_error_string">>, <<>>,
                 Other(d.code, error_msg(d.msgp)))
        ELSE Ret(<<"ftdi_read_pins">>, <<>>, Ok(d.out))

\* Context::read_pins.
read_pins(self) ==
    LET d == self.resp
    IN  IF d.code = -2
        THEN Ret(<<"ftdi_read_pins">>, <<>>, UsbDeviceUnavailable)
        ELSE IF d.code < 0
        THEN Ret(<<"ftdi_read_pins", "ftdi_get_error_string">>, <<>>,
                 Other(d.code, error_msg(d.msgp)))
        ELSE Ret(<<"ftdi_read_pins">>, <<>>, Ok(d.out))

\* Context::poll_modem_status.
poll_modem_status(self) ==
    LET d == self.resp
    IN  IF d.code = -2
        THEN Ret(<<"ftdi_poll_modem_status">>, <<>>, UsbDeviceUnavailable)
        ELSE IF d.code < 0
        THEN Ret(<<"ftdi_poll_modem_status", "ftdi_get_error_string">>, <<>>,
                 Other(d.code, error_msg(d.msgp)))
        ELSE Ret(<<"ftdi_poll_modem_status">>, <<>>, Ok(<<from_bits_truncate(d.out[1])>>))

\* Context::set_dtr_rts.
set_dtr_rts(self, dtr, rts) ==
    LET d == self.resp
    IN  IF d.code = -2
        THEN Ret(<<"ftdi_setdtr_rts">>, <<BoolInt(dtr), BoolInt(rts)>>, UsbDeviceUnavailable)
        ELSE IF d.code < 0
        THEN Ret(<<"ftdi_setdtr_rts", "ftdi_get_error_string">>, <<BoolInt(dtr), BoolInt(rts)>>,
                 Other(d.code, error_msg(d.msgp)))
        ELSE Ret(<<"ftdi_setdtr_rts">>, <<BoolInt(dtr), BoolInt(rts)>>, Ok(<<>>))

\* Context::set_dtr.
set_dtr(self, dtr) ==
    LET d == self.resp
    IN  IF d.code = -2
        THEN Ret(<<"ftdi_setdtr">>, <<BoolInt(dtr)>>, UsbDeviceUnavailable)
        ELSE IF d.code < 0
        THEN Ret(<<"ftdi_setdtr", "ftdi_get_error_string">>, <<BoolInt(dtr)>>,
                 Other(d.code, error_msg(d.msgp)))
        ELSE Ret(<<"ftdi_setdtr">>, <<BoolInt(dtr)>>, Ok(<<>>))

\* Context::set_rts.
set_rts(self, rts) ==
    LET d == self.resp
    IN  IF d.code = -2
        THEN Ret(<<"ftdi_setrts">>, <<BoolInt(rts)>>, UsbDeviceUnavailable)
        ELSE IF d.code < 0
        THEN Ret(<<"ftdi_setrts", "ftdi_get_error_string">>, <<BoolInt(rts)>>,
                 Other(d.code, error_msg(d.msgp)))
        ELSE Ret(<<"ftdi_setrts">>, <<BoolInt(rts)>>, Ok(<<>>))

\* Context::set_flow_control: flow_control as i32.
set_flow_control(self, flow_control) ==
    LET d == self.resp
    IN  IF d.code = -2
        THEN Ret(<<"ftdi_setflowctrl">>, <<flow_control>>, UsbDeviceUnavailable)
        ELSE IF d.code < 0
        THEN Ret(<<"ftdi_setflowctrl", "ftdi_get_error_string">>, <<flow_control>>,
                 Other(d.code, error_msg(d.msgp)))
        ELSE Ret(<<"ftdi_setflowctrl">>, <<flow_control>>, Ok(<<>>))

\* Context::set_event_char.
set_event_char(self, ch, enable) ==
    LET d == self.resp
    IN  IF d.code = -2
        THEN Ret(<<"ftdi_set_event_char">>, <<ch, BoolInt(enable)>>, UsbDeviceUnavailable)
        ELSE IF d.code < 0
        THEN Ret(<<"ftdi_set_event_char", "ftdi_get_error_string">>, <<ch, BoolInt(enable)>>,
                 Other(d.code, error_msg(d.msgp)))
        ELSE Ret(<<"ftdi_set_event_char">>, <<ch, BoolInt(enable)>>, Ok(<<>>))

\* Context::set_error_char.
set_error_char(self, ch, enable) ==
    LET d == self.resp
    IN  IF d.code = -2
        THEN Ret(<<"ftdi_set_error_char">>, <<ch, BoolInt(enable)>>, UsbDeviceUnavailable)
        ELSE IF d.code < 0
        THEN Ret(<<"ftdi_set_error_char", "ftdi_get_error_string">>, <<ch, BoolInt(enable)>>,
                 Other(d.code, error_msg(d.msgp)))
        ELSE Ret(<<"ftdi_set_error_char">>, <<ch, BoolInt(enable)>>, Ok(<<>>))

\* Context::write_data: data.as_ptr(), data.len(); the count is dropped.
write_data(self, data) ==
    LET d == self.resp
    IN  IF d.code = -666
        THEN Ret(<<"ftdi_write_data">>, data, UsbDeviceUnavailable)
        ELSE IF d.code < 0
        THEN Ret(<<"ftdi_write_data", "ftdi_get_error_string">>, data,
                 Other(d.code, error_msg(d.msgp)))
        ELSE Ret(<<"ftdi_write_data">>, data, Ok(<<>>))

\* Mutant: read_data with the sentinel of the configuration calls (-2).
read_data_sentinel2(self, buf) ==
    LET d == self.resp
    IN  IF d.code = -2
        THEN Ret(<<"ftdi_read_data">>, <<buf.len>>, UsbDeviceUnavailable)
        ELSE IF d.code < 0
        THEN Ret(<<"ftdi_read_data", "ftdi_get_error_string">>, <<buf.len>>,
                 Other(d.code, error_msg(d.msgp)))
        ELSE Ret(<<"ftdi_read_data">>, <<buf.len>>, Ok(<<d.code>>))

\* Context::read_data: one ftdi_read_data into the slice buf (buf.as_mut_ptr(),
\* buf.len()); Ok(len as usize).  A slice is [off, len]: where it starts in
\* the caller's buffer and how long it is.
read_data(self, buf) ==
    LET d == self.resp
    IN  IF d.code = -666
        THEN Ret(<<"ftdi_read_data">>, <<buf.len>>, UsbDeviceUnavailable)
        ELSE IF d.code < 0
        THEN Ret(<<"ftdi_read_data", "ftdi_get_error_string">>, <<buf.len>>,
                 Other(d.code, error_msg(d.msgp)))
        ELSE Ret(<<"ftdi_read_data">>, <<buf.len>>, Ok(<<d.code>>))

\* Mutant: a Drop that does not deinitialize the context.
drop_without_deinit(self) == Ret(<<>>, <<>>, Ok(<<>>))

\* impl Drop for Context: ftdi_deinit, whose outcome is not reported.
drop(self) == Ret(<<"ftdi_deinit">>, <<>>, Ok(<<>>))

\* Context::read_exact, `while pos < buf.len()`.
read_exact_more(buf, pos) == pos < Len(buf)

\* Mutant: `&mut buf[..buf.len() - pos]`, a slice that starts at the front.
read_exact_slice_front(buf, pos) == [off |-> 0, len |-> Len(buf) - pos]

\* Context::read_exact, `&mut buf[pos..]`: the still unfilled tail.
read_exact_slice(buf, pos) == [off |-> pos, len |-> Len(buf) - pos]

\* Mutant: `pos = len`.
read_exact_advance_assign(pos, len) == len

\* Context::read_exact, `pos += len`.
read_exact_advance(pos, len) == pos + len

\* Mutant: a loop that reads again after a failed read_data.
read_exact_turn_retry(self, buf, pos) ==
    LET r == read_data(self, read_exact_slice(buf, pos))
    IN  IF r.res.tag # "Ok"
        THEN [ret |-> <<>>, pos |-> pos, call |-> r]
        ELSE [ret |-> <<>>, pos |-> read_exact_advance(pos, r.res.val[1]), call |-> r]

\* Context::read_exact, one turn of the loop body:
\*     let len = self.read_data(&mut buf[pos..])?;  pos += len;
\* ret is <<e>> when `?` returns Err(e) from read_exact, <<>> otherwise; call
\* is the read_data call made.
read_exact_turn(self, buf, pos) ==
    LET r == read_data(self, read_exact_slice(buf, pos))
    IN  IF r.res.tag # "Ok"
        THEN [ret |-> <<r.res>>, pos |-> pos, call |-> r]
        ELSE [ret |-> <<>>, pos |-> read_exact_advance(pos, r.res.val[1]), call |-> r]

\* ------------------------------------------------------------------------
\* State
\* ------------------------------------------------------------------------

VARIABLES
    life,       \* the session: "absent", "live" or "dropped"
    ctx,        \* the driver context in the session's Box (driver-side state)
    deinits,    \* ftdi_deinit calls made on the session's context
    last,       \* the latest method call: the driver's response and the result
    pc,         \* read_exact: "idle", or "loop" while it is running
    buf,        \* the caller's buffer of the running or latest read
    pos,        \* read_exact's fill position
    nreads,     \* driver reads the running or latest read_exact has made
    sawZero,    \* some read of it returned 0 bytes and no error
    delivered,  \* the bytes the driver delivered to it, in call order
    rxres,      \* what read_exact returned: <<>> until it returns, then <<res>>
    pair        \* two sessions given the same call (specification SpecPair)

vars == <<life, ctx, deinits, last, pc, buf, pos, nreads, sawZero, delivered,
          rxres, pair>>

rxvars == <<pc, buf, pos, nreads, sawZero, delivered, rxres>>

\* The driver-side state of a context: usb_dev is "never" (no open tried),
\* "failed" (open failed), "open" or "closed".
FreshCtx == [usb_dev |-> "never"]

\* self during a call the driver answers with d.
Self(c, d) == [usb_dev |-> c.usb_dev, resp |-> d]

NoCall ==
    [op |-> "none", calls |-> <<>>, args |-> <<>>, code |-> 0, msgp |-> <<>>,
     out |-> <<>>, res |-> Ok(<<>>)]

CallRecord(op, d, r) ==
    [op |-> op, calls |-> r.calls, args |-> r.args, code |-> d.code,
     msgp |-> d.msgp, out |-> d.out, res |-> r.res]

Occurrences(f, calls) == Cardinality({i \in DOMAIN calls : calls[i] = f})

Zeros(n) == [i \in 1..n |-> 0]

\* The caller's buffer after the driver stored data at the start of slice.
DriverStore(b, slice, data) ==
    [i \in 1..Len(b) |->
        IF i > slice.off /\ i <= slice.off + Len(data) THEN data[i - slice.off]
        ELSE b[i]]

\* Saturating count of driver reads.
MaxCount == MaxLen + 1

\* ------------------------------------------------------------------------
\* Inputs and driver responses
\* ------------------------------------------------------------------------

NegCodes == {c \in Codes : c < 0}

\* Failed calls: a negative code, and the error string the method then reads.
\* o is what the out-parameter holds (the `let mut result = 0` it started as).
Failures(o) == {Response(c, p, o) : c \in NegCodes, p \in MsgPtrs}

\* Responses of a call without out-parameter.
Plain == Failures(<<>>) \cup {Response(c, <<>>, <<>>) : c \in 0..MaxOk}

\* Responses of a call that stores a value from vals through its out-pointer.
WithOut(vals) ==
    Failures(<<0>>) \cup {Response(c, <<>>, <<v>>) : c \in 0..MaxOk, v \in vals}

\* Responses of ftdi_write_data / ftdi_read_data asked for n bytes: an error,
\* or a count of 0..n; a read delivers that many bytes.
WriteResponses(n) == Failures(<<>>) \cup {Response(c, <<>>, <<>>) : c \in 0..n}

ReadResponses(n) ==
    Failures(<<>>) \cup {Response(Len(data), <<>>, data) : data \in SeqsUpTo(Bytes, n)}

\* The buffers handed to write_data: one of each length.
WriteBuffers == {[i \in 1..n |-> 1 + (i % 2)] : n \in 0..MaxLen}

Interfaces == {1, 4}
BitModes == {0, 2}
Masks == {255}
FlowControls == {0, 256}
VendorIds == {1027}
ProductIds == {24577}
Millis == {0, 255}
Chars == {17}
ChipIds == {0, 2147483647}
PinValues == {0, 255}
StatusValues == {0, 15, 272, 287, 65535} \cup ModemFlags \cup {1, 2, 4, 8}

\* ------------------------------------------------------------------------
\* Actions
\* ------------------------------------------------------------------------

RxIdle ==
    /\ pc' = "idle"
    /\ buf' = <<>>
    /\ pos' = 0
    /\ nreads' = 0
    /\ sawZero' = FALSE
    /\ delivered' = <<>>
    /\ rxres' = <<>>

\* A method call on the live session that the driver answered with d and
\* that returned r, leaving the device in state dev.
Finish(op, d, r, dev) ==
    /\ last' = CallRecord(op, d, r)
    /\ ctx' = [usb_dev |-> dev]
    /\ deinits' = deinits + Occurrences("ftdi_deinit", r.calls)
    /\ UNCHANGED <<life, pair>>

Callable == life = "live" /\ pc = "idle"

\* A call: the method, its arguments (booleans as 0/1) and the response.
Invocation(op, a, d) == [op |-> op, a |-> a, d |-> d]

NoInvocation == Invocation("none", <<>>, Response(0, <<>>, <<>>))

NoRet == Ret(<<>>, <<>>, Ok(<<>>))

\* Two sessions, both created and neither yet given the common call.
PairInit ==
    [ctx |-> <<FreshCtx, FreshCtx>>, inv |-> NoInvocation, ret |-> <<NoRet, NoRet>>]

Init ==
    /\ life = "absent"
    /\ ctx = FreshCtx
    /\ deinits = 0
    /\ last = NoCall
    /\ pc = "idle"
    /\ buf = <<>>
    /\ pos = 0
    /\ nreads = 0
    /\ sawZero = FALSE
    /\ delivered = <<>>
    /\ rxres = <<>>
    /\ pair = PairInit

New ==
    /\ life # "live"
    /\ \E d \in Plain :
        LET r == new(d)
        IN  /\ life' = IF r.res.tag = "Ok" THEN "live" ELSE "absent"
            /\ last' = CallRecord("new", d, r)
            /\ deinits' = Occurrences("ftdi_deinit", r.calls)
    /\ ctx' = FreshCtx
    /\ RxIdle
    /\ UNCHANGED pair

Drop ==
    /\ Callable
    /\ LET r == drop(Self(ctx, Response(0, <<>>, <<>>)))
       IN  /\ last' = CallRecord("drop", Response(0, <<>>, <<>>), r)
           /\ deinits' = deinits + Occurrences("ftdi_deinit", r.calls)
    /\ life' = "dropped"
    /\ RxIdle
    /\ UNCHANGED <<ctx, pair>>

\* The device after ftdi_usb_open answered with code.
AfterOpen(dev, code) ==
    IF code >= 0 THEN "open"
    ELSE IF dev \in {"never", "failed"} THEN "failed"
    ELSE dev

\* The device after ftdi_usb_close: an open device is closed whatever the code.
AfterClose(dev) == IF dev = "open" THEN "closed" ELSE dev

UsbOpen ==
    /\ Callable
    /\ \E vendor \in VendorIds, product \in ProductIds, d \in Plain :
        Finish("usb_open", d, usb_open(Self(ctx, d), vendor, product),
               AfterOpen(ctx.usb_dev, d.code))
    /\ RxIdle

UsbClose ==
    /\ Callable
    /\ \E d \in Plain :
        Finish("usb_close", d, usb_close(Self(ctx, d)), AfterClose(ctx.usb_dev))
    /\ RxIdle

SetInterface ==
    /\ Callable
    /\ \E interface \in Interfaces, d \in Plain :
        Finish("set_interface", d, set_interface(Self(ctx, d), interface), ctx.usb_dev)
    /\ RxIdle

UsbReset ==
    /\ Callable
    /\ \E d \in Plain :
        Finish("usb_reset", d, usb_reset(Self(ctx, d)), ctx.usb_dev)
    /\ RxIdle

UsbPurgeRxBuffer ==
    /\ Callable
    /\ \E d \in Plain :
        Finish("usb_purge_rx_buffer", d, usb_purge_rx_buffer(Self(ctx, d)), ctx.usb_dev)
    /\ RxIdle

UsbPurgeTxBuffer ==
    /\ Callable
    /\ \E d \in Plain :
        Finish("usb_purge_tx_buffer", d, usb_purge_tx_buffer(Self(ctx, d)), ctx.usb_dev)
    /\ RxIdle

UsbPurgeBuffers ==
    /\ Callable
    /\ \E d \in Plain :
        Finish("usb_purge_buffers", d, usb_purge_buffers(Self(ctx, d)), ctx.usb_dev)
    /\ RxIdle

ReadChipId ==
    /\ Callable
    /\ \E d \in WithOut(ChipIds) :
        Finish("read_chip_id", d, read_chip_id(Self(ctx, d)), ctx.usb_dev)
    /\ RxIdle

GetLatencyTimer ==
    /\ Callable
    /\ \E d \in WithOut(Millis) :
        Finish("get_latency_timer", d, get_latency_timer(Self(ctx, d)), ctx.usb_dev)
    /\ RxIdle

SetLatencyTimer ==
    /\ Callable
    /\ \E millis \in Millis, d \in Plain :
        Finish("set_latency_timer", d, set_latency_timer(Self(ctx, d), millis), ctx.usb_dev)
    /\ RxIdle

SetBitMode ==
    /\ Callable
    /\ \E mask \in Masks, bit_mode \in BitModes, d \in Plain :
        Finish("set_bit_mode", d, set_bit_mode(Self(ctx, d), mask, bit_mode), ctx.usb_dev)
    /\ RxIdle

DisableBitBang ==
    /\ Callable
    /\ \E d \in Plain :
        Finish("disable_bit_bang", d, disable_bit_bang(Self(ctx, d)), ctx.usb_dev)
    /\ RxIdle

ReadPins ==
    /\ Callable
    /\ \E d \in WithOut(PinValues) :
        Finish("read_pins", d, read_pins(Self(ctx, d)), ctx.usb_dev)
    /\ RxIdle

PollModemStatus ==
    /\ Callable
    /\ \E d \in WithOut(StatusValues) :
        Finish("poll_modem_status", d, poll_modem_status(Self(ctx, d)), ctx.usb_dev)
    /\ RxIdle

SetDtrRts ==
    /\ Callable
    /\ \E dtr \in BOOLEAN, rts \in BOOLEAN, d \in Plain :
        Finish("set_dtr_rts", d, set_dtr_rts(Self(ctx, d), dtr, rts), ctx.usb_dev)
    /\ RxIdle

SetDtr ==
    /\ Callable
    /\ \E dtr \in BOOLEAN, d \in Plain :
        Finish("set_dtr", d, set_dtr(Self(ctx, d), dtr), ctx.usb_dev)
    /\ RxIdle

SetRts ==
    /\ Callable
    /\ \E rts \in BOOLEAN, d \in Plain :
        Finish("set_rts", d, set_rts(Self(ctx, d), rts), ctx.usb_dev)
    /\ RxIdle

SetFlowControl ==
    /\ Callable
    /\ \E flow_control \in FlowControls, d \in Plain :
        Finish("set_flow_control", d, set_flow_control(Self(ctx, d), flow_control), ctx.usb_dev)
    /\ RxIdle

SetEventChar ==
    /\ Callable
    /\ \E ch \in Chars, enable \in BOOLEAN, d \in Plain :
        Finish("set_event_char", d, set_event_char(Self(ctx, d), ch, enable), ctx.usb_dev)
    /\ RxIdle

SetErrorChar ==
    /\ Callable
    /\ \E ch \in Chars, enable \in BOOLEAN, d \in Plain :
        Finish("set_error_char", d, set_error_char(Self(ctx, d), ch, enable), ctx.usb_dev)
    /\ RxIdle

WriteData ==
    /\ Callable
    /\ \E data \in WriteBuffers :
        \E d \in WriteResponses(Len(data)) :
            Finish("write_data", d, write_data(Self(ctx, d), data), ctx.usb_dev)
    /\ RxIdle

\* One read_data call by the caller, into a buffer of n bytes.
ReadData ==
    /\ Callable
    /\ \E n \in 0..MaxLen :
        \E d \in ReadResponses(n) :
            LET slice == [off |-> 0, len |-> n]
            IN  /\ Finish("read_data", d, read_data(Self(ctx, d), slice), ctx.usb_dev)
                /\ buf' = DriverStore(Zeros(n), slice, d.out)
                /\ delivered' = d.out
    /\ pc' = "idle"
    /\ pos' = 0
    /\ nreads' = 1
    /\ sawZero' = FALSE
    /\ rxres' = <<>>

\* read_exact is entered with a buffer of n bytes: `let mut pos = 0`.
ReadExactBegin ==
    /\ Callable
    /\ \E n \in 0..MaxLen : buf' = Zeros(n)
    /\ pc' = "loop"
    /\ pos' = 0
    /\ nreads' = 0
    /\ sawZero' = FALSE
    /\ delivered' = <<>>
    /\ rxres' = <<>>
    /\ last' = NoCall
    /\ UNCHANGED <<life, ctx, deinits, pair>>

\* One turn of the loop: the test holds, read_data is called on the tail, and
\* either its error is returned or pos advances.  The call is recorded under
\* the name "read_exact".
ReadExactIter ==
    /\ life = "live"
    /\ pc = "loop"
    /\ read_exact_more(buf, pos)
    /\ \E d \in ReadResponses(read_exact_slice(buf, pos).len) :
        LET t == read_exact_turn(Self(ctx, d), buf, pos)
        IN  /\ Finish("read_exact", d, t.call, ctx.usb_dev)
            /\ nreads' = IF nreads < MaxCount THEN nreads + 1 ELSE nreads
            /\ rxres' = t.ret
            /\ pos' = t.pos
            /\ IF t.ret # <<>>
               THEN /\ pc' = "idle"
                    /\ UNCHANGED <<buf, sawZero, delivered>>
               ELSE /\ pc' = "loop"
                    /\ buf' = DriverStore(buf, read_exact_slice(buf, pos), d.out)
                    /\ sawZero' = (sawZero \/ d.code = 0)
                    /\ delivered' = delivered \o d.out

\* The loop test fails: Ok(()).
ReadExactEnd ==
    /\ life = "live"
    /\ pc = "loop"
    /\ ~read_exact_more(buf, pos)
    /\ pc' = "idle"
    /\ rxres' = <<Ok(<<>>)>>
    /\ UNCHANGED <<life, ctx, deinits, last, buf, pos, nreads, sawZero, delivered, pair>>

Next ==
    \/ New
    \/ Drop
    \/ UsbOpen
    \/ UsbClose
    \/ SetInterface
    \/ UsbReset
    \/ UsbPurgeRxBuffer
    \/ UsbPurgeTxBuffer
    \/ UsbPurgeBuffers
    \/ ReadChipId
    \/ GetLatencyTimer
    \/ SetLatencyTimer
    \/ SetBitMode
    \/ DisableBitBang
    \/ ReadPins
    \/ PollModemStatus
    \/ SetDtrRts
    \/ SetDtr
    \/ SetRts
    \/ SetFlowControl
    \/ SetEventChar
    \/ SetErrorChar
    \/ WriteData
    \/ ReadData
    \/ ReadExactBegin
    \/ ReadExactIter
    \/ ReadExactEnd

Spec == Init /\ [][Next]_vars

\* ------------------------------------------------------------------------
\* read_exact alone, with the progress of the running thread
\* ------------------------------------------------------------------------
\* read_exact runs on the caller's thread and every driver read blocks for at
\* most the latency timer, so a turn of the loop that can be taken is taken.

NextRead ==
    \/ New
    \/ ReadExactBegin
    \/ ReadExactIter
    \/ ReadExactEnd

SpecRead ==
    /\ Init
    /\ [][NextRead]_vars
    /\ WF_vars(ReadExactIter)
    /\ WF_vars(ReadExactEnd)

\* ------------------------------------------------------------------------
\* Two sessions given the same call
\* ------------------------------------------------------------------------
\* pair.ctx[i] is the driver context of session i, pair.inv the call both
\* sessions were given together with the driver's response to it, and
\* pair.ret[i] what the call returned on session i.  Each session first makes
\* usb_open and usb_close calls of its own; then both are given the same call.

Invocations ==
    {Invocation("set_interface", <<i>>, d) : i \in Interfaces, d \in Plain}
    \cup {Invocation("usb_open", <<v, q>>, d) : v \in VendorIds, q \in ProductIds, d \in Plain}
    \cup {Invocation(op, <<>>, d) :
            op \in {"usb_reset", "usb_purge_rx_buffer", "usb_purge_tx_buffer",
                    "usb_purge_buffers", "usb_close", "disable_bit_bang"},
            d \in Plain}
    \cup {Invocation("read_chip_id", <<>>, d) : d \in WithOut(ChipIds)}
    \cup {Invocation("get_latency_timer", <<>>, d) : d \in WithOut(Millis)}
    \cup {Invocation("set_latency_timer", <<m>>, d) : m \in Millis, d \in Plain}
    \cup {Invocation("set_bit_mode", <<m, b>>, d) : m \in Masks, b \in BitModes, d \in Plain}
    \cup {Invocation("read_pins", <<>>, d) : d \in WithOut(PinValues)}
    \cup {Invocation("poll_modem_status", <<>>, d) : d \in WithOut(StatusValues)}
    \cup {Invocation("set_dtr_rts", <<x, y>>, d) : x \in 0..1, y \in 0..1, d \in Plain}
    \cup {Invocation(op, <<x>>, d) : op \in {"set_dtr", "set_rts"}, x \in 0..1, d \in Plain}
    \cup {Invocation("set_flow_control", <<f>>, d) : f \in FlowControls, d \in Plain}
    \cup {Invocation(op, <<c, x>>, d) :
            op \in {"set_event_char", "set_error_char"}, c \in Chars, x \in 0..1,
            d \in Plain}
    \cup UNION {{Invocation("write_data", data, d) : d \in WriteResponses(Len(data))} :
                data \in WriteBuffers}
    \cup UNION {{Invocation("read_data", <<n>>, d) : d \in ReadResponses(n)} :
                n \in 0..MaxLen}

\* The call inv made on a session whose driver context is c.
Apply(inv, c) ==
    LET self == Self(c, inv.d)
        a == inv.a
    IN  CASE inv.op = "set_interface" -> set_interface(self, a[1])
          [] inv.op = "usb_open" -> usb_open(self, a[1], a[2])
          [] inv.op = "usb_reset" -> usb_reset(self)
          [] inv.op = "usb_purge_rx_buffer" -> usb_purge_rx_buffer(self)
          [] inv.op = "usb_purge_tx_buffer" -> usb_purge_tx_buffer(self)
          [] inv.op = "usb_purge_buffers" -> usb_purge_buffers(self)
          [] inv.op = "usb_close" -> usb_close(self)
          [] inv.op = "read_chip_id" -> read_chip_id(self)
          [] inv.op = "get_latency_timer" -> get_latency_timer(self)
          [] inv.op = "set_latency_timer" -> set_latency_timer(self, a[1])
          [] inv.op = "set_bit_mode" -> set_bit_mode(self, a[1], a[2])
          [] inv.op = "disable_bit_bang" -> disable_bit_bang(self)
          [] inv.op = "read_pins" -> read_pins(self)
          [] inv.op = "poll_modem_status" -> poll_modem_status(self)
          [] inv.op = "set_dtr_rts" -> set_dtr_rts(self, a[1] = 1, a[2] = 1)
          [] inv.op = "set_dtr" -> set_dtr(self, a[1] = 1)
          [] inv.op = "set_rts" -> set_rts(self, a[1] = 1)
          [] inv.op = "set_flow_control" -> set_flow_control(self, a[1])
          [] inv.op = "set_event_char" -> set_event_char(self, a[1], a[2] = 1)
          [] inv.op = "set_error_char" -> set_error_char(self, a[1], a[2] = 1)
          [] inv.op = "write_data" -> write_data(self, a)
          [] inv.op = "read_data" -> read_data(self, [off |-> 0, len |-> a[1]])

\* The driver function each method calls first.
DriverFn ==
    [set_interface |-> "ftdi_set_interface", usb_open |-> "ftdi_usb_open",
     usb_reset |-> "ftdi_usb_reset",
     usb_purge_rx_buffer |-> "ftdi_usb_purge_rx_buffer",
     usb_purge_tx_buffer |-> "ftdi_usb_purge_tx_buffer",
     usb_purge_buffers |-> "ftdi_usb_purge_buffers", usb_close |-> "ftdi_usb_close",
     read_chip_id |-> "ftdi_read_chipid",
     get_latency_timer |-> "ftdi_get_latency_timer",
     set_latency_timer |-> "ftdi_set_latency_timer", set_bit_mode |-> "ftdi_set_bitmode",
     disable_bit_bang |-> "ftdi_disable_bitbang", read_pins |-> "ftdi_read_pins",
     poll_modem_status |-> "ftdi_poll_modem_status", set_dtr_rts |-> "ftdi_setdtr_rts",
     set_dtr |-> "ftdi_setdtr", set_rts |-> "ftdi_setrts",
     set_flow_control |-> "ftdi_setflowctrl", set_event_char |-> "ftdi_set_event_char",
     set_error_char |-> "ftdi_set_error_char", write_data |-> "ftdi_write_data",
     read_data |-> "ftdi_read_data"]

\* Session i calls usb_open on its own.
PairOpen ==
    /\ pair.inv = NoInvocation
    /\ \E i \in 1..2, vendor \in VendorIds, product \in ProductIds, d \in Plain :
        pair' = [pair EXCEPT
                    !.ctx[i] = [usb_dev |-> AfterOpen(pair.ctx[i].usb_dev, d.code)]]
    /\ UNCHANGED <<life, ctx, deinits, last, rxvars>>

\* Session i calls usb_close on its own.
PairClose ==
    /\ pair.inv = NoInvocation
    /\ \E i \in 1..2 :
        pair' = [pair EXCEPT !.ctx[i] = [usb_dev |-> AfterClose(pair.ctx[i].usb_dev)]]
    /\ UNCHANGED <<life, ctx, deinits, last, rxvars>>

\* Both sessions are given the same call, and the driver answers both alike.
PairCall ==
    /\ pair.inv = NoInvocation
    /\ \E inv \in Invocations :
        pair' = [pair EXCEPT !.inv = inv,
                             !.ret = <<Apply(inv, pair.ctx[1]), Apply(inv, pair.ctx[2])>>]
    /\ UNCHANGED <<life, ctx, deinits, last, rxvars>>

NextPair ==
    \/ PairOpen
    \/ PairClose
    \/ PairCall

SpecPair == Init /\ [][NextPair]_vars

\* ------------------------------------------------------------------------
\* Properties
\* ------------------------------------------------------------------------

\* The driver's error string of a recorded call, "" for a null pointer.
ErrorString(l) == IF l.msgp = <<>> THEN "" ELSE l.msgp[1]

\* The recorded call l follows the mapping with device-gone code sentinel.
MapsWithSentinel(l, sentinel) ==
    /\ l.code = sentinel => l.res = UsbDeviceUnavailable
    /\ (l.code < 0 /\ l.code # sentinel) => l.res = Other(l.code, ErrorString(l))
    /\ l.code >= 0 => l.res.tag = "Ok"

\* The recorded call l follows the mapping without a device-gone code.
MapsWithoutSentinel(l) ==
    /\ l.code < 0 => l.res = Other(l.code, ErrorString(l))
    /\ l.code >= 0 => l.res.tag = "Ok"

\* C1: the context of a session that new() returned is deinitialized exactly
\* once, at destruction: no ftdi_deinit while the session is live, whatever
\* was called on it and whatever failed, and exactly one once it is dropped.
C1_DeinitOnceAtDrop ==
    /\ life = "live" => deinits = 0
    /\ life = "dropped" => (deinits = 1 /\ last.calls = <<"ftdi_deinit">>)

\* C1 witness: a session whose usb_open failed has been dropped.
C1_Witness == life = "dropped" /\ ctx.usb_dev = "failed" /\ deinits = 1

\* The device-gone code of each configuration operation of the table.
ConfigSentinel ==
    [read_chip_id |-> -2, get_latency_timer |-> -2, set_latency_timer |-> -3,
     set_bit_mode |-> -2, disable_bit_bang |-> -2, read_pins |-> -2,
     poll_modem_status |-> -2, set_dtr |-> -2, set_rts |-> -2, set_dtr_rts |-> -2,
     set_flow_control |-> -2, set_event_char |-> -2, set_error_char |-> -2]

\* C2: every configuration operation maps its own sentinel (-3 for
\* set_latency_timer, -2 for the others) to UsbDeviceUnavailable, every other
\* negative code c to Other(c, driver's error string), and every
\* non-negative code to success.
C2_ConfigMapping ==
    last.op \in DOMAIN ConfigSentinel => MapsWithSentinel(last, ConfigSentinel[last.op])

\* C2 witness: set_latency_timer answered -3, and so UsbDeviceUnavailable.
C2_Witness ==
    /\ last.op = "set_latency_timer"
    /\ last.code = -3
    /\ last.res = UsbDeviceUnavailable

\* The device-gone code of reset and of the purges.
PurgeSentinel ==
    [usb_reset |-> -2, usb_purge_rx_buffer |-> -2, usb_purge_tx_buffer |-> -2,
     usb_purge_buffers |-> -3]

\* C3 as amended: reset, purge_rx_buffer and purge_tx_buffer map -2, and
\* purge_buffers maps -3, to UsbDeviceUnavailable and every other negative
\* code c to Other(c, message); close has no device-gone code: it maps every
\* negative code c, -2 and -3 included, to Other(c, message).
C3_PurgeMappingCloseHasNone ==
    /\ last.op \in DOMAIN PurgeSentinel => MapsWithSentinel(last, PurgeSentinel[last.op])
    /\ last.op = "usb_close" => MapsWithoutSentinel(last)

\* C3 witness: close answered -2, and so Other(-2, message).
C3_Witness ==
    /\ last.op = "usb_close"
    /\ last.code = -2
    /\ last.res = Other(-2, "device not found")

\* C3 as stated: as above for reset and the purges, and close too reports
\* UsbDeviceUnavailable for some negative driver code.
C3_Original ==
    /\ last.op \in DOMAIN PurgeSentinel => MapsWithSentinel(last, PurgeSentinel[last.op])
    /\ life = "live" =>
        \E c \in NegCodes : \A p \in MsgPtrs :
            usb_close(Self(ctx, Response(c, p, <<>>))).res = UsbDeviceUnavailable

\* C4: write_data and read_data map -666 to UsbDeviceUnavailable, every
\* other negative code c (-5, -3, -2, ...) to Other(c, message), and a
\* non-negative code n to success; read_data then returns exactly n.
C4_TransferMapping ==
    /\ last.op \in {"write_data", "read_data", "read_exact"} => MapsWithSentinel(last, -666)
    /\ (last.op \in {"read_data", "read_exact"} /\ last.code >= 0) =>
            last.res = Ok(<<last.code>>)
    /\ (last.op = "write_data" /\ last.code >= 0) => last.res = Ok(<<>>)

\* C4 witness: write_data answered -5, and so Other(-5, message).
C4_Witness ==
    /\ last.op = "write_data"
    /\ last.code = -5
    /\ last.res = Other(-5, "device not found")

\* C5: while read_exact runs without error, and when it returns Ok, the
\* buffer holds the bytes delivered so far, in call order, in its first pos
\* cells and is untouched behind them; each read_data call was given exactly
\* the unfilled tail, and stored its bytes right behind the earlier ones.
C5_ReadExactConcatenates ==
    (pc = "loop" \/ rxres # <<>>) =>
        /\ pos = Len(delivered)
        /\ pos <= Len(buf)
        /\ \A i \in 1..Len(buf) : buf[i] = IF i <= pos THEN delivered[i] ELSE 0
        /\ (last.op = "read_exact" /\ last.code >= 0) =>
            /\ last.args = <<Len(buf) - (pos - last.code)>>
            /\ SubSeq(buf, pos - last.code + 1, pos) = last.out
        /\ rxres = <<Ok(<<>>)>> => buf = delivered

\* C5 witness: a 3-byte buffer filled by a read of 1 byte, then one of 2.
C5_Witness ==
    /\ rxres = <<Ok(<<>>)>>
    /\ buf = <<2, 1, 2>>
    /\ nreads = 2
    /\ last.out = <<1, 2>>

\* C6: when a read_data call made by read_exact fails, read_exact returns
\* that call's error unchanged (UsbDeviceUnavailable for -666, Other(c,
\* message) otherwise) and has left its loop: it reads no more.
C6_ReadExactPropagatesError ==
    (last.op = "read_exact" /\ last.code < 0) =>
        /\ pc = "idle"
        /\ rxres = <<last.res>>
        /\ last.res = IF last.code = -666 THEN UsbDeviceUnavailable
                      ELSE Other(last.code, ErrorString(last))
        /\ ~ENABLED ReadExactIter

\* C6 witness: the third read fails with -666 after 2 bytes were placed.
C6_Witness ==
    /\ last.op = "read_exact"
    /\ last.code = -666
    /\ pos = 2
    /\ nreads = 3
    /\ rxres = <<UsbDeviceUnavailable>>

\* C7 as stated: whenever write_data returns success, the driver accepted
\* every byte of the buffer.
C7_WriteAllOrNothing ==
    (last.op = "write_data" /\ last.res.tag = "Ok") => last.code = Len(last.args)

\* C8: poll_modem_status on success returns exactly the defined flags whose
\* bit is set in the raw status r: the four low bits never show, and
\* 0b0000_0001_0001_0000 gives {DR, CTS}.
C8_ModemStatusDecoding ==
    (last.op = "poll_modem_status" /\ last.code >= 0) =>
        LET r == last.out[1]
            v == last.res.val[1]
        IN  /\ v = r - (r % 16)
            /\ \A f \in ModemFlags : contains(v, f) <=> ((r \div f) % 2 = 1)
            /\ r = 272 => v = DR + CTS

\* C8 witness: the raw status 0b0000_0001_0001_1111 decodes to {DR, CTS}.
C8_Witness ==
    /\ last.op = "poll_modem_status"
    /\ last.code = 0
    /\ last.out = <<287>>
    /\ last.res = Ok(<<272>>)

\* C9: two sessions with any two histories (open never called, open failed,
\* device open, device closed) that are given the same call and the same
\* driver response both make the driver call and return the same result.
C9_HistoryIndependent ==
    pair.inv.op # "none" =>
        /\ pair.ret[1] = pair.ret[2]
        /\ \A i \in 1..2 :
            /\ pair.ret[i].calls # <<>>
            /\ pair.ret[i].calls[1] = DriverFn[pair.inv.op]

\* C9 witness: read_pins succeeds alike on a session that never opened a
\* device and on one whose device was closed.
C9_Witness ==
    /\ pair.inv.op = "read_pins"
    /\ pair.inv.d.code = 0
    /\ pair.ctx[1].usb_dev = "never"
    /\ pair.ctx[2].usb_dev = "closed"
    /\ pair.ret[1].res = Ok(<<255>>)

\* C10: as long as no read has returned 0 bytes, read_exact has made at most
\* N reads and pos is at most N; with N = 0 it returns Ok without a read; a
\* running read_exact returns unless some read returns 0 bytes without error;
\* and a read of 0 bytes leaves the loop where it was.
C10_ReadExactTerminates ==
    /\ []((pc = "loop" \/ rxres # <<>>) =>
            /\ pos <= Len(buf)
            /\ ~sawZero => nreads <= Len(buf)
            /\ (Len(buf) = 0 /\ rxres # <<>>) => (nreads = 0 /\ rxres = <<Ok(<<>>)>>))
    /\ []((pc = "loop" /\ read_exact_more(buf, pos)) =>
            LET t == read_exact_turn(Self(ctx, Response(0, <<>>, <<>>)), buf, pos)
            IN  t.ret = <<>> /\ t.pos = pos)
    /\ (pc = "loop") ~> (pc = "idle" \/ sawZero)

\* C10 witness: a 3-byte read_exact returned after 3 reads of one byte.
C10_Witness ==
    /\ rxres = <<Ok(<<>>)>>
    /\ Len(buf) = 3
    /\ nreads = 3
    /\ ~sawZero

====
